---- MODULE Spec2Model ----
(***************************************************************************)
(* State-machine model of src/webgpu-engine.js: the startup async IIFE,    *)
(* initializeWebGPU(), the ResizeObserver callback, render() and           *)
(* runGameLoop().                                                          *)
(*                                                                         *)
(* Units.  CSS sizes (contentRect / getBoundingClientRect) and the device  *)
(* pixel ratio are counted in halves (1 = 0.5, 2 = 1.0), so that           *)
(* Math.round(size * dpr) is computed and not assumed.  Uniform values and *)
(* the clear colour are scaled by 10 (0.3 is 3).  The clock is counted in  *)
(* quarter periods of sin / cos (t = 1 is pi/2 seconds).                   *)
(*                                                                         *)
(* JavaScript runs every callback to completion: event-loop tasks (an      *)
(* animation frame, a resize notification, a timer, a promise settling)    *)
(* start only when no call is on the stack.  rpc is the position inside    *)
(* render(), pc the position of the startup IIFE.                          *)
(***************************************************************************)
EXTENDS Integers, Sequences, FiniteSets, TLC

\* ---------------------------------------------------------------- bounds
MaxSize == 2        \* largest CSS size reported by the host, in half pixels
MaxRenders == 3     \* render() invocations explored
MaxNotifs == 2      \* resize notifications explored
MaxTime == 3        \* largest clock reading, in quarter periods

Sizes == 0..MaxSize
\* window.devicePixelRatio in halves; 0 stands for a falsy value (line 74: || 1)
DprValues == {0, 1, 2}
\* width / height attributes the page may give the canvas element
CanvasAttr == {0, 1}

VARIABLES
    pc,          \* startup IIFE: "start", "awaitAdapter", "awaitDevice", "iife", "ready", "failed", "rejected"
    initResult,  \* outcome of initializeWebGPU(): "pending", "true", "false", "threw"
    initCalls,   \* number of calls of initializeWebGPU()
    loopStarts,  \* number of calls of runGameLoop() made by the startup IIFE
    gpu,         \* the gpu state object; TRUE = field is non-null
    canvasW,     \* canvas.width  (device pixels)
    canvasH,     \* canvas.height (device pixels)
    dpr,         \* const dpr of initializeWebGPU (halves); 0 = not yet read
    observing,   \* the ResizeObserver observes the canvas
    messageEl,   \* the page has a #message element
    message,     \* what #message shows: "initial", "ready", "hidden", "error"
    errLogged,   \* console.error(errorMsg, err) was called
    rafPending,  \* animation-frame callbacks requested and not yet run
    rpc,         \* render(): "idle", "guard", "uniform", "encode", "submit", "ret"
    caller,      \* who called render(): "none", "loop", "host"
    now,         \* last reading of performance.now()
    time,        \* const time of the current render() call
    uniforms,    \* data.uniforms (host memory)
    uniformBuf,  \* contents of gpu.uniformBuffer on the device; <<>> = not created
    cmd,         \* commands recorded by the current commandEncoder
    ops,         \* device operations of the current / last render() call, in order
    submitted,   \* command buffers submitted to device.queue
    fullFrames,  \* render() calls that passed both guards
    renders,     \* render() calls
    notifs,      \* resize notifications delivered
    lastEntry    \* contentRect of the last resize notification

vars == <<pc, initResult, initCalls, loopStarts, gpu, canvasW, canvasH, dpr,
          observing, messageEl, message, errLogged, rafPending, rpc, caller,
          now, time, uniforms, uniformBuf, cmd, ops, submitted, fullFrames,
          renders, notifs, lastEntry>>

initVars == <<pc, initResult, initCalls, loopStarts, gpu, dpr, observing,
              messageEl, message, errLogged>>
canvasVars == <<canvasW, canvasH>>
frameVars == <<now, time, uniforms, uniformBuf, cmd, ops, submitted, fullFrames>>

\* ------------------------------------------------------------ pure parts

\* Math.round(size * dpr), with size and ratio in halves: floor(x + 0.5)
Round(size, ratio) == (size * ratio + 2) \div 4

\* Math.sin / Math.cos on quarter periods
Sin(t) == CASE t % 4 = 0 -> 0 [] t % 4 = 1 -> 1 [] t % 4 = 2 -> 0 [] OTHER -> -1
Cos(t) == Sin(t + 1)

\* the gpu object of lines 12-22
GpuNull == [adapter |-> FALSE, device |-> FALSE, canvas |-> FALSE,
            context |-> FALSE, presentationFormat |-> FALSE,
            renderPipeline |-> FALSE, vertexBuffer |-> FALSE,
            uniformBuffer |-> FALSE, bindGroup |-> FALSE]

\* data.uniforms of lines 34-37
UniformsInit == <<0, 0, 0, 0>>

\* clearValue of line 259, scaled by 10
ClearValue == <<1, 1, 2, 10>>

Op(name, args) == [op |-> name, args |-> args]

Init ==
    /\ pc = "start"
    /\ initResult = "pending"
    /\ initCalls = 0
    /\ loopStarts = 0
    /\ gpu = GpuNull
    /\ canvasW \in CanvasAttr
    /\ canvasH \in CanvasAttr
    /\ dpr = 0
    /\ observing = FALSE
    /\ messageEl \in BOOLEAN
    /\ message = "initial"
    /\ errLogged = FALSE
    /\ rafPending = 0
    /\ rpc = "idle"
    /\ caller = "none"
    /\ now = 0
    /\ time = 0
    /\ uniforms = UniformsInit
    /\ uniformBuf = <<>>
    /\ cmd = <<>>
    /\ ops = <<>>
    /\ submitted = 0
    /\ fullFrames = 0
    /\ renders = 0
    /\ notifs = 0
    /\ lastEntry = <<0, 0>>

\* ------------------------------------------------- initializeWebGPU()

\* lines 293-294 and 51-60: the IIFE calls initializeWebGPU(); without
\* navigator.gpu the throw of line 55 is outside the try block, so the promise
\* the async function returns is rejected; otherwise requestAdapter() is awaited.
InitStart ==
    /\ pc = "start"
    /\ initCalls' = initCalls + 1
    /\ \E hasGpu \in BOOLEAN :
          IF hasGpu
             THEN /\ pc' = "awaitAdapter"
                  /\ initResult' = initResult
             ELSE /\ pc' = "iife"
                  /\ initResult' = "threw"
    /\ UNCHANGED <<loopStarts, gpu, dpr, observing, messageEl, message, errLogged,
                   canvasVars, rafPending, rpc, caller, frameVars, renders,
                   notifs, lastEntry>>

\* lines 217-222: the catch block
Catch ==
    /\ message' = IF messageEl THEN "error" ELSE message
    /\ errLogged' = TRUE
    /\ initResult' = "false"
    /\ pc' = "iife"

\* lines 60-63: requestAdapter() settles with an adapter, with null, or rejects;
\* the continuation runs when no call is on the stack
InitAdapterResolved ==
    /\ pc = "awaitAdapter"
    /\ rpc = "idle"
    /\ \E a \in {"adapter", "null", "reject"} :
          IF a = "adapter"
             THEN /\ gpu' = [gpu EXCEPT !.adapter = TRUE]
                  /\ pc' = "awaitDevice"
                  /\ UNCHANGED <<message, errLogged, initResult>>
             ELSE /\ Catch
                  /\ gpu' = gpu
    /\ UNCHANGED <<initCalls, loopStarts, dpr, observing, messageEl, canvasVars,
                   rafPending, rpc, caller, frameVars, renders, notifs, lastEntry>>

\* The steps of lines 66-203 that can throw, in program order:
\* 1 canvas missing (72), 2 no context (95), 3 configure (100),
\* 4 createBuffer vertex (107), 5 createBuffer uniform (116),
\* 6 createShaderModule (158), 7 createRenderPipeline (172),
\* 8 createBindGroup (192); 9 = nothing throws.
NoFault == 9
Faults == 1..NoFault

\* the gpu fields assigned before step `fault` throws (device already set)
GpuAfterSetup(fault) ==
    [gpu EXCEPT !.device = TRUE,
                !.canvas = fault >= 2,
                !.context = fault >= 3,
                !.presentationFormat = fault >= 3,
                !.vertexBuffer = fault >= 5,
                !.uniformBuffer = fault >= 6,
                !.renderPipeline = fault >= 8,
                !.bindGroup = fault >= 9]

\* line 79 and line 89: a size is applied only if both values are > 0
SizeAppliesWidthOnly(w, h) == w > 0
SizeApplies(w, h) == w > 0 /\ h > 0

\* lines 63-215: requestDevice() settles; the rest of initializeWebGPU() runs
\* to its return without another await.
InitDeviceResolved ==
    /\ pc = "awaitDevice"
    /\ rpc = "idle"
    /\ \E d \in {"device", "null", "reject"} :
          IF d # "device"
             THEN /\ Catch
                  /\ UNCHANGED <<gpu, dpr, observing, canvasVars, uniformBuf>>
             ELSE \E fault \in Faults, w \in Sizes, h \in Sizes, ratio \in DprValues :
                  LET r == IF ratio = 0 THEN 2 ELSE ratio IN
                  /\ gpu' = GpuAfterSetup(fault)
                  /\ dpr' = IF fault >= 2 THEN r ELSE dpr
                  /\ observing' = (fault >= 2)
                  /\ IF fault >= 2 /\ SizeApplies(w, h)
                        THEN /\ canvasW' = Round(w, r)
                             /\ canvasH' = Round(h, r)
                        ELSE UNCHANGED canvasVars
                  /\ uniformBuf' = IF fault >= 6 THEN uniforms ELSE uniformBuf
                  /\ IF fault = NoFault
                        THEN /\ message' = IF messageEl THEN "ready" ELSE message
                             /\ initResult' = "true"
                             /\ pc' = "iife"
                             /\ errLogged' = errLogged
                        ELSE Catch
    /\ UNCHANGED <<initCalls, loopStarts, messageEl, rafPending, rpc, caller,
                   now, time, uniforms, cmd, ops, submitted, fullFrames, renders,
                   notifs, lastEntry>>

\* line 212: the timer hides the #message element
HideMessage ==
    /\ rpc = "idle"
    /\ pc = "ready"
    /\ message = "ready"
    /\ message' = "hidden"
    /\ UNCHANGED <<pc, initResult, initCalls, loopStarts, gpu, dpr, observing,
                   messageEl, errLogged, canvasVars, rafPending, rpc, caller,
                   frameVars, renders, notifs, lastEntry>>

\* ------------------------------------------------------ startup IIFE

\* the call render() of line 288: a new invocation starts at the guards
CallRenderFrom(who) ==
    /\ rpc' = "guard"
    /\ caller' = who
    /\ renders' = renders + 1
    /\ ops' = <<>>
    /\ cmd' = <<>>

\* the IIFE of a page that starts the loop whatever initializeWebGPU() returned
StartupResumeAlways ==
    /\ pc = "iife"
    /\ rpc = "idle"
    /\ IF initResult = "threw"
          THEN /\ pc' = "rejected"
               /\ UNCHANGED <<loopStarts, rpc, caller, renders, ops, cmd>>
          ELSE /\ pc' = "ready"
               /\ loopStarts' = loopStarts + 1
               /\ CallRenderFrom("loop")
    /\ UNCHANGED <<initResult, initCalls, gpu, dpr, observing, messageEl, message,
                   errLogged, canvasVars, rafPending, now, time, uniforms,
                   uniformBuf, submitted, fullFrames, notifs, lastEntry>>

\* lines 294-303: the await of line 294 resumes.  A rejected promise makes the
\* await throw and the IIFE ends rejected; true starts the loop; false logs.
StartupResume ==
    /\ pc = "iife"
    /\ rpc = "idle"
    /\ CASE initResult = "true" ->
               /\ pc' = "ready"
               /\ loopStarts' = loopStarts + 1
               /\ CallRenderFrom("loop")
         [] initResult = "false" ->
               /\ pc' = "failed"
               /\ UNCHANGED <<loopStarts, rpc, caller, renders, ops, cmd>>
         [] OTHER ->
               /\ pc' = "rejected"
               /\ UNCHANGED <<loopStarts, rpc, caller, renders, ops, cmd>>
    /\ UNCHANGED <<initResult, initCalls, gpu, dpr, observing, messageEl, message,
                   errLogged, canvasVars, rafPending, now, time, uniforms,
                   uniformBuf, submitted, fullFrames, notifs, lastEntry>>

\* ------------------------------------------------------------ render()

\* line 229: one of the five checked fields is null
NotInitialised ==
    \/ ~gpu.device
    \/ ~gpu.context
    \/ ~gpu.renderPipeline
    \/ ~gpu.canvas
    \/ ~gpu.vertexBuffer

\* line 232: the canvas has a zero dimension
ZeroSizeWidthOnly == canvasW = 0
ZeroSize == canvasW = 0 \/ canvasH = 0

\* lines 229-235: both guards; a frame that passes them is a full frame
RenderGuard ==
    /\ rpc = "guard"
    /\ IF NotInitialised \/ ZeroSize
          THEN /\ rpc' = "ret"
               /\ fullFrames' = fullFrames
          ELSE /\ rpc' = "uniform"
               /\ fullFrames' = fullFrames + 1
    /\ UNCHANGED <<initVars, canvasVars, rafPending, caller, now, time, uniforms,
                   uniformBuf, cmd, ops, submitted, renders, notifs, lastEntry>>

\* the factor 0.3 of lines 240-241, scaled by 10
Amplitude == 3

\* lines 240-241: data.uniforms after the two assignments at clock value t
UniformAtCounted(u, t) ==
    [u EXCEPT ![1] = Amplitude * Sin(t + fullFrames),
              ![2] = Amplitude * Cos(t + fullFrames)]
UniformAt(u, t) ==
    [u EXCEPT ![1] = Amplitude * Sin(t), ![2] = Amplitude * Cos(t)]

\* lines 239-248: read the clock (monotonic), update data.uniforms, upload it
RenderUniforms ==
    /\ rpc = "uniform"
    /\ \E t \in now..MaxTime :
          /\ now' = t
          /\ time' = t
          /\ uniforms' = UniformAt(uniforms, t)
    /\ uniformBuf' = uniforms'
    /\ ops' = Append(ops, Op("writeBuffer", uniforms'))
    /\ rpc' = "encode"
    /\ UNCHANGED <<initVars, canvasVars, rafPending, caller, cmd, submitted,
                   fullFrames, renders, notifs, lastEntry>>

\* lines 266-279: the commands of the render pass, in order
EncodedPassTwoDraws ==
    <<Op("beginRenderPass", ClearValue),
      Op("setPipeline", <<>>),
      Op("setVertexBuffer", <<0>>),
      Op("setBindGroup", <<0, IF gpu.bindGroup THEN 1 ELSE 0>>),
      Op("draw", <<3, 1, 0, 0>>),
      Op("draw", <<3, 1, 0, 0>>),
      Op("end", <<>>)>>
EncodedPass ==
    <<Op("beginRenderPass", ClearValue),
      Op("setPipeline", <<>>),
      Op("setVertexBuffer", <<0>>),
      Op("setBindGroup", <<0, IF gpu.bindGroup THEN 1 ELSE 0>>),
      Op("draw", <<3, 1, 0, 0>>),
      Op("end", <<>>)>>

\* lines 252-280: record the pass and finish the command buffer
RenderEncode ==
    /\ rpc = "encode"
    /\ cmd' = EncodedPass
    /\ ops' = ops \o EncodedPass
    /\ rpc' = "submit"
    /\ UNCHANGED <<initVars, canvasVars, rafPending, caller, now, time, uniforms,
                   uniformBuf, submitted, fullFrames, renders, notifs, lastEntry>>

\* line 281: submit([commandBuffer])
RenderSubmit ==
    /\ rpc = "submit"
    /\ submitted' = submitted + 1
    /\ ops' = Append(ops, Op("submit", <<1>>))
    /\ rpc' = "ret"
    /\ UNCHANGED <<initVars, canvasVars, rafPending, caller, now, time, uniforms,
                   uniformBuf, cmd, fullFrames, renders, notifs, lastEntry>>

\* ------------------------------------------------------- runGameLoop()

\* a loop that requests the next frame twice
RunGameLoopScheduleTwice ==
    /\ rpc = "ret"
    /\ caller = "loop"
    /\ rafPending' = rafPending + 2
    /\ rpc' = "idle"
    /\ caller' = "none"
    /\ UNCHANGED <<initVars, canvasVars, frameVars, renders, notifs, lastEntry>>

\* line 289: render() has returned; request the next frame
RunGameLoopSchedule ==
    /\ rpc = "ret"
    /\ caller = "loop"
    /\ rafPending' = rafPending + 1
    /\ rpc' = "idle"
    /\ caller' = "none"
    /\ UNCHANGED <<initVars, canvasVars, frameVars, renders, notifs, lastEntry>>

\* lines 287-288: the host runs a requested animation-frame callback
Tick ==
    /\ rpc = "idle"
    /\ rafPending > 0
    /\ renders < MaxRenders
    /\ rafPending' = rafPending - 1
    /\ CallRenderFrom("loop")
    /\ UNCHANGED <<initVars, canvasVars, now, time, uniforms, uniformBuf,
                   submitted, fullFrames, notifs, lastEntry>>

\* ------------------------------------------------ ResizeObserver callback

\* a callback that resizes the width and forgets the height
ResizeWidthOnly ==
    /\ observing
    /\ rpc = "idle"
    /\ pc \in {"ready", "failed"}
    /\ notifs < MaxNotifs
    /\ \E w \in Sizes, h \in Sizes :
          /\ lastEntry' = <<w, h>>
          /\ canvasW' = IF SizeApplies(w, h) THEN Round(w, dpr) ELSE canvasW
          /\ canvasH' = canvasH
    /\ notifs' = notifs + 1
    /\ UNCHANGED <<initVars, rafPending, rpc, caller, frameVars, renders>>

\* lines 75-86: one entry for the canvas with contentRect (w, h); it is
\* delivered by the event loop, between tasks, once the observer observes
Resize ==
    /\ observing
    /\ rpc = "idle"
    /\ pc \in {"ready", "failed"}
    /\ notifs < MaxNotifs
    /\ \E w \in Sizes, h \in Sizes :
          /\ lastEntry' = <<w, h>>
          /\ IF SizeApplies(w, h)
                THEN /\ canvasW' = Round(w, dpr)
                     /\ canvasH' = Round(h, dpr)
                ELSE UNCHANGED canvasVars
    /\ notifs' = notifs + 1
    /\ UNCHANGED <<initVars, rafPending, rpc, caller, frameVars, renders>>

\* ----------------------------------------- render() called by the host

\* render is a top-level function of the script: a host script or a test
\* harness may call it between tasks
CallRender ==
    /\ rpc = "idle"
    /\ pc \in {"awaitAdapter", "awaitDevice", "ready", "failed", "rejected"}
    /\ renders < MaxRenders
    /\ CallRenderFrom("host")
    /\ UNCHANGED <<initVars, canvasVars, rafPending, now, time, uniforms,
                   uniformBuf, submitted, fullFrames, notifs, lastEntry>>

CallRenderReturn ==
    /\ rpc = "ret"
    /\ caller = "host"
    /\ rpc' = "idle"
    /\ caller' = "none"
    /\ UNCHANGED <<initVars, canvasVars, rafPending, frameVars, renders, notifs,
                   lastEntry>>

\* ------------------------------------------------------ specifications

Next ==
    \/ InitStart
    \/ InitAdapterResolved
    \/ InitDeviceResolved
    \/ StartupResume
    \/ HideMessage
    \/ RenderGuard
    \/ RenderUniforms
    \/ RenderEncode
    \/ RenderSubmit
    \/ RunGameLoopSchedule
    \/ Tick
    \/ Resize

\* the page as shipped: only the script's own callbacks run
Spec == Init /\ [][Next]_vars

NextCalls ==
    \/ Next
    \/ CallRender
    \/ CallRenderReturn

\* the page with render() also called directly by the host
SpecCalls == Init /\ [][NextCalls]_vars

\* -------------------------------------------------------------- claims

\* initializeWebGPU() has ended without returning true
InitFailed == initResult \in {"false", "threw"}

\* the process-wide state Failed
Failed == pc \in {"failed", "rejected"}

\* the surface has a presentable target
Presentable == canvasW > 0 /\ canvasH > 0

\* a resize notification is being delivered in this step
Notified == notifs' = notifs + 1

\* C1: once initializeWebGPU() has failed, for whatever reason, it is never
\* called again, runGameLoop() is never started, no animation frame is ever
\* requested, no command buffer is ever submitted, and the state Failed is
\* never left.
C1_FailureIsTerminal ==
    /\ [](InitFailed => /\ initCalls = 1
                        /\ loopStarts = 0
                        /\ renders = 0
                        /\ rafPending = 0
                        /\ submitted = 0)
    /\ [][InitFailed => InitFailed']_vars
    /\ [][Failed => pc' = pc]_vars

\* C1 witness: initialization failed at createBindGroup, the state is Failed
\* and the host has since delivered every resize notification explored.
C1_Witness ==
    /\ pc = "failed"
    /\ gpu.renderPipeline
    /\ ~gpu.bindGroup
    /\ notifs = MaxNotifs

\* C2: after initializeWebGPU() has failed, a call of render() does nothing:
\* it never gets past its guards, the uniform buffer keeps its initial
\* contents (if it exists), nothing is recorded and nothing is submitted.
C2_RenderNoOpAfterFailure ==
    InitFailed => /\ rpc \in {"idle", "guard", "ret"}
                  /\ uniformBuf \in {<<>>, UniformsInit}
                  /\ cmd = <<>>
                  /\ ops = <<>>
                  /\ submitted = 0

\* C3: a render() call that finds the canvas with a zero width or height
\* returns normally from its guards and changes nothing: no uniform write, no
\* command recorded, no submit, and the startup state is left as it is; and no
\* render() call is ever past its guards while a dimension is 0.
C3_ZeroSizeSkips ==
    /\ [][(rpc = "guard" /\ (canvasW = 0 \/ canvasH = 0))
            => /\ rpc' = "ret"
               /\ UNCHANGED <<pc, initResult, gpu, uniforms, uniformBuf, cmd, ops,
                              submitted, fullFrames, canvasW, canvasH>>]_vars
    /\ [](rpc \in {"uniform", "encode", "submit"} => (canvasW > 0 /\ canvasH > 0))

\* C3 witness: in state Ready the loop's render() has just returned from a
\* skipped frame with a canvas whose height alone is 0.
C3_Witness ==
    /\ pc = "ready"
    /\ caller = "loop"
    /\ rpc = "ret"
    /\ ops = <<>>
    /\ canvasW > 0
    /\ canvasH = 0

FullFrame(u) ==
    <<Op("writeBuffer", u),
      Op("beginRenderPass", <<1, 1, 2, 10>>),
      Op("setPipeline", <<>>),
      Op("setVertexBuffer", <<0>>),
      Op("setBindGroup", <<0, 1>>),
      Op("draw", <<3, 1, 0, 0>>),
      Op("end", <<>>),
      Op("submit", <<1>>)>>

\* C5: in state Ready a render() call with a canvas of positive width and
\* height has performed, when it returns, exactly: one uniform write, one
\* render pass cleared to (0.1, 0.1, 0.2, 1.0) with set pipeline, set vertex
\* buffer, set bind group and one draw(3, 1), and one submit of one command
\* buffer, in this order; and between render() calls the number of submitted
\* command buffers equals the number of render() calls that were not skipped.
C5_OneDrawOneSubmit ==
    /\ (pc = "ready" /\ rpc = "ret" /\ canvasW > 0 /\ canvasH > 0)
          => ops = FullFrame(uniformBuf)
    /\ (rpc = "ret" /\ ops # <<>>) => ops = FullFrame(uniformBuf)
    /\ rpc \in {"idle", "guard", "ret"} => submitted = fullFrames
    /\ rpc \in {"uniform", "encode", "submit"} => submitted + 1 = fullFrames

\* C5 witness: the third render() call returns from a full frame, one of the
\* earlier calls having been skipped, after a resize notification.
C5_Witness ==
    /\ pc = "ready"
    /\ rpc = "ret"
    /\ renders = 3
    /\ submitted = 2
    /\ notifs > 0
    /\ Len(ops) = 8

\* C6: whenever initializeWebGPU() has ended, it has returned true or false,
\* and when it did not return true the error was logged and is shown in the
\* #message element (if the page has one).
C6_FailureIsReturned ==
    initResult # "pending" =>
        /\ initResult \in {"true", "false"}
        /\ initResult = "false" => (errLogged /\ (messageEl => message = "error"))

\* C7: in state Ready, when the last resize notification had both dimensions
\* positive, the loop's next render() call is a full frame.
C7_PositiveResizeResumesFrames ==
    [][(pc = "ready" /\ caller = "loop" /\ rpc = "guard" /\ notifs > 0
          /\ lastEntry[1] > 0 /\ lastEntry[2] > 0)
         => rpc' = "uniform"]_vars

\* C8: at most one animation-frame callback is pending, and none while
\* render() runs; a frame is requested only when render() has returned, one at
\* a time; a render() call starts only when no other is in progress; and a
\* resize notification is delivered only while no render() call is in progress.
C8_OneFrameAtATime ==
    /\ [](rafPending <= 1)
    /\ [](rpc # "idle" => rafPending = 0)
    /\ [][rafPending' > rafPending
            => (rpc = "ret" /\ rpc' = "idle" /\ rafPending' = rafPending + 1)]_vars
    /\ [][renders' # renders => (rpc = "idle" /\ renders' = renders + 1)]_vars
    /\ [][(Notified \/ canvasW' # canvasW \/ canvasH' # canvasH)
            => (rpc = "idle" /\ rpc' = "idle")]_vars

\* C8 witness: the loop is between two frames with one callback pending, after
\* two render() calls and two resize notifications.
C8_Witness ==
    /\ pc = "ready"
    /\ rpc = "idle"
    /\ rafPending = 1
    /\ renders = 2
    /\ notifs = 2

\* C9: a resize notification in which width or height is not > 0 changes
\* neither canvas.width nor canvas.height nor any field of gpu; one with both
\* > 0 sets canvas.width to round(width * dpr) and canvas.height to
\* round(height * dpr) in the same step.
C9_ResizeAppliesBothOrNone ==
    [][Notified =>
         LET w == lastEntry'[1]
             h == lastEntry'[2]
         IN  /\ gpu' = gpu
             /\ IF w > 0 /\ h > 0
                   THEN /\ canvasW' = (w * dpr + 2) \div 4
                        /\ canvasH' = (h * dpr + 2) \div 4
                   ELSE /\ canvasW' = canvasW
                        /\ canvasH' = canvasH]_vars

\* C9 witness: a notification with both values positive has been applied and
\* has changed the canvas from a zero size to a positive size.
C9_Witness ==
    /\ notifs > 0
    /\ rpc = "idle"
    /\ lastEntry[1] > 0
    /\ lastEntry[2] > 0
    /\ canvasW > 0
    /\ canvasH > 0
    /\ renders > 0
    /\ fullFrames = 0

\* 10 * (0.3 * sin t, 0.3 * cos t) at the quarter periods
ExpectedOffset(t) ==
    CASE t % 4 = 0 -> <<0, 3>>
      [] t % 4 = 1 -> <<3, 0>>
      [] t % 4 = 2 -> <<0, -3>>
      [] OTHER -> <<-3, 0>>

\* C10: once a frame has written the uniforms, the uniform buffer and
\* data.uniforms hold (0.3 sin t, 0.3 cos t, 0, 0) for the clock value t read
\* by the last render() call that wrote them, whatever happened before; the
\* two padding elements are always 0.
C10_UniformDependsOnTimeOnly ==
    /\ uniforms[3] = 0 /\ uniforms[4] = 0
    /\ uniformBuf # <<>> => (uniformBuf[3] = 0 /\ uniformBuf[4] = 0)
    /\ (rpc \in {"encode", "submit"} \/ submitted > 0) =>
          /\ uniformBuf = ExpectedOffset(time) \o <<0, 0>>
          /\ uniforms = uniformBuf

\* C10 witness: the second full frame, drawn at t = pi/2 after a skipped frame
\* and a resize, has uploaded (0.3, 0, 0, 0).
C10_Witness ==
    /\ submitted = 2
    /\ renders = 3
    /\ notifs > 0
    /\ time = 1
    /\ uniformBuf = <<3, 0, 0, 0>>

====
